---------------------------- MODULE Spec2Model ----------------------------
(***************************************************************************)
(* GeocodeTweetProcessor (src/src/text2map/core/geocoder.py): the entity   *)
(* extraction, entity aggregation, geocoding, containment filter and       *)
(* polygon substitution stages.                                            *)
(*                                                                         *)
(* Strings are sequences of character codes, so that sorting, joining,     *)
(* hash removal, trimming and case folding are computed character by       *)
(* character as Python computes them.  A data frame is a sequence of rows  *)
(* (records); a cell that may be missing holds None or a tagged value.      *)
(***************************************************************************)
EXTENDS Integers, Sequences, FiniteSets, TLC

VARIABLES
    pc,            \* position of the running operation
    tweet,         \* extract_entities_by_type: the row passed in (text and label)
    extracted,     \* extract_entities_by_type: the returned dict (line 57)
    ner_entities,  \* process_entities: the frame passed in, one row per tweet
    max_rows,      \* process_entities: the max_rows argument
    result_df,     \* process_entities: the FAC/LOC/GPE columns after remove_hash (line 88)
    df_cleaned,    \* process_entities: the groups after the strip, before iloc[1:] (line 93)
    data,          \* the frame process_entities returns (line 99) and geocode_data receives
    requests,      \* geocode_data: the address strings submitted to the geolocator, in order
    inflight,      \* geocode_data: the addresses whose lookup has not returned yet
    replies,       \* geocode_data: what the geolocator did for each finished lookup
    latlon,        \* geocode_data: the pd.Series geocode_address returned for each row
    df,            \* geocode_data: the returned frame (line 122), passed to create_geodataframe
    target_states, \* create_geodataframe: the target_states argument
    gdf,           \* the frame create_geodataframe returns and add_state_polygons receives
    cultural_gdf,  \* add_state_polygons: the boundary dataset as read from the shapefile
    merged,        \* add_state_polygons: the returned frame (line 179)
    gdf1           \* clean_and_export_geojson: the exported and returned frame (line 196)

vars == <<pc, tweet, extracted, ner_entities, max_rows, result_df, df_cleaned, data,
          requests, inflight, replies, latlon, df, target_states,
          gdf, cultural_gdf, merged, gdf1>>

extract_vars == <<tweet, extracted>>
entity_vars == <<ner_entities, max_rows, result_df, df_cleaned>>
geocode_vars == <<requests, inflight, replies, latlon>>
geodataframe_vars == <<df, target_states>>
polygon_vars == <<gdf, cultural_gdf, merged, gdf1>>

\* A missing cell value (None / NaN), and a cell holding the number x.
None == [type |-> "None"]
Float(x) == [type |-> "float", value |-> x]

\* The variables of the stages that are not running.
IdleExtract ==
    /\ tweet = None
    /\ extracted = None

IdleEntities ==
    /\ ner_entities = <<>>
    /\ max_rows = 0
    /\ result_df = <<>>
    /\ df_cleaned = <<>>

IdleGeocode ==
    /\ requests = <<>>
    /\ inflight = <<>>
    /\ replies = <<>>
    /\ latlon = <<>>

IdleGeoDataFrame ==
    /\ df = <<>>
    /\ target_states = None

IdlePolygons ==
    /\ gdf = <<>>
    /\ cultural_gdf = <<>>
    /\ merged = <<>>
    /\ gdf1 = <<>>

-----------------------------------------------------------------------------
(* Characters and strings                                                  *)

SPACE == 32
HASH == 35
COMMA == 44

Min(a, b) == IF a < b THEN a ELSE b
Max(a, b) == IF a > b THEN a ELSE b

\* Python's str comparison: by code point, a proper prefix first.
StrLess(s, t) ==
    \E k \in 1..Len(t) :
        /\ \A j \in 1..(k - 1) : j <= Len(s) /\ s[j] = t[j]
        /\ \/ k = Len(s) + 1
           \/ k <= Len(s) /\ s[k] < t[k]

\* set(x): the distinct elements of a list.
ToSet(seq) == {seq[i] : i \in 1..Len(seq)}

\* sorted(x) of a collection of distinct strings.
RECURSIVE sorted(_)
sorted(S) ==
    IF S = {} THEN <<>>
    ELSE LET m == CHOOSE x \in S : \A y \in S \ {x} : StrLess(x, y)
         IN  <<m>> \o sorted(S \ {m})

\* ', '.join(x)
RECURSIVE join(_)
join(seq) ==
    IF seq = <<>> THEN <<>>
    ELSE IF Len(seq) = 1 THEN seq[1]
    ELSE seq[1] \o <<COMMA, SPACE>> \o join(Tail(seq))

\* value.replace('#', '')
IsNotHash(c) == c # HASH
remove_hash(value) == SelectSeq(value, IsNotHash)

\* str.strip(chars): drop the leading and the trailing characters that are in chars.
RECURSIVE lstrip(_, _)
lstrip(s, chars) ==
    IF s # <<>> /\ Head(s) \in chars THEN lstrip(Tail(s), chars) ELSE s

RECURSIVE rstrip(_, _)
rstrip(s, chars) ==
    IF s # <<>> /\ s[Len(s)] \in chars THEN rstrip(SubSeq(s, 1, Len(s) - 1), chars) ELSE s

strip(s, chars) == rstrip(lstrip(s, chars), chars)

-----------------------------------------------------------------------------
(* extract_entities_by_type                                                *)

\* Python's text[start:end]: a negative index counts from the end of the text,
\* then both indices are clamped to 0..len(text); the result is empty when the
\* start is not before the end.  Indices are 0-based, end exclusive.
slice(text, start, end) ==
    LET n  == Len(text)
        lo == IF start < 0 THEN Max(start + n, 0) ELSE Min(start, n)
        hi == IF end < 0 THEN Max(end + n, 0) ELSE Min(end, n)
    IN  SubSeq(text, lo + 1, hi)

\* A variant of extract_entities_by_type whose last branch is an else: a span of
\* any other type goes to the GPE list.
extract_entities_else_gpe(row) ==
    LET RECURSIVE loop(_, _)
        loop(k, lists) ==
            IF k > Len(row.label) THEN lists
            ELSE LET start       == row.label[k][1]
                     end         == row.label[k][2]
                     entity_type == row.label[k][3]
                     entity_text == slice(row.text, start, end)
                 IN  loop(k + 1,
                          IF entity_type = "FAC"
                          THEN [lists EXCEPT !.FAC = Append(@, entity_text)]
                          ELSE IF entity_type = "LOC"
                          THEN [lists EXCEPT !.LOC = Append(@, entity_text)]
                          ELSE [lists EXCEPT !.GPE = Append(@, entity_text)])
    IN  loop(1, [FAC |-> <<>>, LOC |-> <<>>, GPE |-> <<>>])

\* Lines 42-57: the loop over row['label'], one (start, end, entity_type) a step.
extract_entities_by_type(row) ==
    LET RECURSIVE loop(_, _)
        loop(k, lists) ==
            IF k > Len(row.label) THEN lists
            ELSE LET start       == row.label[k][1]
                     end         == row.label[k][2]
                     entity_type == row.label[k][3]
                     entity_text == slice(row.text, start, end)
                 IN  loop(k + 1,
                          IF entity_type = "FAC"
                          THEN [lists EXCEPT !.FAC = Append(@, entity_text)]
                          ELSE IF entity_type = "LOC"
                          THEN [lists EXCEPT !.LOC = Append(@, entity_text)]
                          ELSE IF entity_type = "GPE"
                          THEN [lists EXCEPT !.GPE = Append(@, entity_text)]
                          ELSE lists)
    IN  loop(1, [FAC |-> <<>>, LOC |-> <<>>, GPE |-> <<>>])

MaxIndex == 3

\* The entity types of the spans: the three the code routes, and one it does not.
EntityTypes == {"FAC", "LOC", "GPE", "ORG"}

\* The spans of the labels: every start and end from -MaxIndex to MaxIndex, so
\* negative, beyond the end of the text, crossed and empty spans are included.
Spans == ((0 - MaxIndex)..MaxIndex) \X ((0 - MaxIndex)..MaxIndex) \X EntityTypes

\* The rows given to extract_entities_by_type: the text "ab" with one span, with
\* two spans, or with a span, the span [0:2] of type ORG and the first span again.
ExtractRows ==
    {[text |-> <<97, 98>>, label |-> <<s>>] : s \in Spans}
      \cup {[text |-> <<97, 98>>, label |-> <<s, t>>] : s \in Spans, t \in Spans}
      \cup {[text |-> <<97, 98>>, label |-> <<s, <<0, 2, "ORG">>, s>>] : s \in Spans}

InitExtract ==
    /\ pc = "extract_entities_by_type"
    /\ tweet \in ExtractRows
    /\ extracted = None
    /\ IdleEntities
    /\ data = <<>>
    /\ IdleGeocode
    /\ IdleGeoDataFrame
    /\ IdlePolygons

\* extract_entities_by_type(row), lines 42-57.
ExtractEntitiesByType ==
    /\ pc = "extract_entities_by_type"
    /\ extracted' = extract_entities_by_type(tweet)
    /\ pc' = "extract_done"
    /\ UNCHANGED <<tweet, data>>
    /\ UNCHANGED <<entity_vars, geocode_vars, geodataframe_vars, polygon_vars>>

NextExtract == ExtractEntitiesByType

SpecExtract == InitExtract /\ [][NextExtract]_vars

-----------------------------------------------------------------------------
(* process_entities                                                        *)

\* Lines 63-67: the row of the frame passed in, with the four columns the
\* assignments add to it; list(set(x)) is held as the set of its elements.
with_entities(row) ==
    LET x == extract_entities_by_type(row)
    IN  [text |-> row.text, label |-> row.label, extracted_entities |-> x,
         FAC |-> ToSet(x.FAC), LOC |-> ToSet(x.LOC), GPE |-> ToSet(x.GPE)]

\* Lines 65-67: list(set(x[T])) for each type.
dedup(x) == [FAC |-> ToSet(x.FAC), LOC |-> ToSet(x.LOC), GPE |-> ToSet(x.GPE)]

\* Lines 69-71: FAC entries that are also LOC entries are dropped from FAC.
remove_fac_loc_duplicates(row) ==
    [row EXCEPT !.FAC = {entity \in row.FAC : entity \notin row.LOC}]

\* Lines 75-77: ', '.join(sorted(x)) for each type.
join_sorted(row) ==
    [FAC |-> join(sorted(row.FAC)), LOC |-> join(sorted(row.LOC)), GPE |-> join(sorted(row.GPE))]

\* Lines 83-88: remove_hash applied to the three joined strings.
clean_hash(row) ==
    [FAC |-> remove_hash(row.FAC), LOC |-> remove_hash(row.LOC), GPE |-> remove_hash(row.GPE)]

\* Lines 63-88 for one record: the row of result_df.
record_key(row) ==
    clean_hash(join_sorted(remove_fac_loc_duplicates(dedup(extract_entities_by_type(row)))))

\* The order of the group keys: by FAC, then LOC, then GPE.
KeyLess(a, b) ==
    \/ StrLess(a.FAC, b.FAC)
    \/ a.FAC = b.FAC /\ StrLess(a.LOC, b.LOC)
    \/ a.FAC = b.FAC /\ a.LOC = b.LOC /\ StrLess(a.GPE, b.GPE)

RECURSIVE sort_keys(_)
sort_keys(S) ==
    IF S = {} THEN <<>>
    ELSE LET m == CHOOSE x \in S : \A y \in S \ {x} : KeyLess(x, y)
         IN  <<m>> \o sort_keys(S \ {m})

\* Line 90: groupby(["FAC", "LOC", "GPE"]).size().reset_index(name='count'):
\* one row per distinct key, in ascending key order, with the number of rows of the key.
groupby_size(frame) ==
    LET keys == sort_keys(ToSet(frame))
    IN  [g \in 1..Len(keys) |->
            [FAC |-> keys[g].FAC, LOC |-> keys[g].LOC, GPE |-> keys[g].GPE,
             count |-> Cardinality({i \in 1..Len(frame) : frame[i] = keys[g]})]]

\* Lines 92-93: str.strip(" ,") on the three key columns of the grouped frame.
strip_group(g) ==
    [g EXCEPT !.FAC = strip(g.FAC, {SPACE, COMMA}),
              !.LOC = strip(g.LOC, {SPACE, COMMA}),
              !.GPE = strip(g.GPE, {SPACE, COMMA})]

strip_columns(frame) == [g \in 1..Len(frame) |-> strip_group(frame[g])]

\* Line 95: df_cleaned.iloc[1:]
drop_first(frame) == IF frame = <<>> THEN <<>> ELSE Tail(frame)

\* A variant of truncate that keeps one row too many: df_cleaned[:max_rows + 1].
truncate_one_more(frame, m) ==
    IF m # 0
    THEN SubSeq(frame, 1, IF m > 0 THEN Min(m + 1, Len(frame)) ELSE Max(0, Len(frame) + m + 1))
    ELSE frame

\* Line 96: df_cleaned[:max_rows] if max_rows else df_cleaned
\* (a negative max_rows slices from the end, as Python does).
truncate(frame, m) ==
    IF m # 0
    THEN SubSeq(frame, 1, IF m > 0 THEN Min(m, Len(frame)) ELSE Max(0, Len(frame) + m))
    ELSE frame

-----------------------------------------------------------------------------
(* Inputs of process_entities                                              *)

MaxRecords == 3

\* The text of the tweets: "#a #b".  Its spans: [0:2] is "#a", [1:2] is "a",
\* [2:3] is " ", [3:5] is "#b", [4:5] is "b", [0:0] is "".
TweetText == <<35, 97, 32, 35, 98>>

\* The labels of the tweets the batches are drawn from.
TweetLabels ==
    { <<>>,                                             \* no entity
      << <<4, 5, "GPE">> >>,                            \* GPE "b" only
      << <<4, 5, "GPE">>, <<4, 5, "GPE">> >>,           \* GPE "b" twice
      << <<0, 0, "GPE">>, <<4, 5, "GPE">> >>,           \* GPE "" and "b"
      << <<0, 2, "GPE">>, <<1, 2, "GPE">> >>,           \* GPE "#a" and "a"
      << <<2, 3, "GPE">> >>,                            \* GPE " " only
      << <<1, 2, "FAC">>, <<1, 2, "LOC">> >>,           \* FAC "a", LOC "a"
      << <<1, 2, "FAC">>, <<4, 5, "FAC">>, <<1, 2, "LOC">> >>,  \* FAC "a","b", LOC "a"
      << <<0, 2, "FAC">>, <<1, 2, "LOC">> >>,           \* FAC "#a", LOC "a"
      << <<1, 2, "FAC">>, <<3, 5, "FAC">> >>,           \* FAC "a" and "#b"
      << <<4, 5, "FAC">>, <<1, 2, "GPE">> >> }          \* FAC "b", GPE "a"

\* The rows of the frames given to process_entities.
EntityRecords == {[text |-> TweetText, label |-> l] : l \in TweetLabels}

Batches == UNION {[1..n -> EntityRecords] : n \in 1..MaxRecords}

InitEntities ==
    /\ pc = "process_entities"
    /\ ner_entities \in Batches
    /\ max_rows \in 0..MaxRecords
    /\ result_df = <<>>
    /\ df_cleaned = <<>>
    /\ data = <<>>
    /\ IdleExtract
    /\ IdleGeocode
    /\ IdleGeoDataFrame
    /\ IdlePolygons

\* process_entities(ner_entities, max_rows), lines 59-99.
ProcessEntities ==
    /\ pc = "process_entities"
    /\ LET keys    == [i \in 1..Len(ner_entities) |-> record_key(ner_entities[i])]
           grouped == strip_columns(groupby_size(keys))
       IN  /\ result_df' = keys
           /\ df_cleaned' = grouped
           /\ data' = truncate(drop_first(grouped), max_rows)
    /\ ner_entities' = [i \in 1..Len(ner_entities) |-> with_entities(ner_entities[i])]
    /\ pc' = "entities_done"
    /\ UNCHANGED max_rows
    /\ UNCHANGED <<extract_vars, geocode_vars, geodataframe_vars, polygon_vars>>

NextEntities == ProcessEntities

SpecEntities == InitEntities /\ [][NextEntities]_vars

-----------------------------------------------------------------------------
(* geocode_address and geocode_data                                        *)

\* A variant of geocode_query that leaves the empty components out of the address.
geocode_query_nonempty(row) ==
    join(SelectSeq(<<row.FAC, row.LOC, row.GPE>>, LAMBDA part : part # <<>>))

\* Line 104: f"{row['FAC']}, {row['LOC']}, {row['GPE']}"
geocode_query(row) ==
    row.FAC \o <<COMMA, SPACE>> \o row.LOC \o <<COMMA, SPACE>> \o row.GPE

\* Lines 106-111: the pd.Series geocode_address returns for what the lookup did.
geocode_result(reply) ==
    IF reply.kind = "found" THEN <<Float(reply.latitude), Float(reply.longitude)>>
    ELSE <<None, None>>

\* Line 116: data[['Latitude', 'Longitude']] = the results of the apply.
with_coordinates(frame, results) ==
    [i \in 1..Len(frame) |->
        [FAC |-> frame[i].FAC, LOC |-> frame[i].LOC, GPE |-> frame[i].GPE,
         count |-> frame[i].count,
         Latitude |-> results[i][1], Longitude |-> results[i][2]]]

\* A variant of dropna that drops a row only when the lookup timed out.
dropna_timeouts_only(frame) ==
    LET keep == {i \in 1..Len(frame) : replies[i].kind # "timeout"}
        RECURSIVE rows(_)
        rows(i) == IF i > Len(frame) THEN <<>>
                   ELSE (IF i \in keep THEN <<frame[i]>> ELSE <<>>) \o rows(i + 1)
    IN  rows(1)

\* Line 119: df.dropna(subset=['Latitude', 'Longitude'])
HasCoordinates(row) == row.Latitude # None /\ row.Longitude # None
dropna(frame) == SelectSeq(frame, HasCoordinates)

MaxGroups == 3

\* The groups the frames given to geocode_data are drawn from.
GroupRows ==
    { [FAC |-> <<>>, LOC |-> <<>>, GPE |-> <<98>>, count |-> 1],     \* ("", "", "b")
      [FAC |-> <<97>>, LOC |-> <<97>>, GPE |-> <<>>, count |-> 2],   \* ("a", "a", "")
      [FAC |-> <<98>>, LOC |-> <<>>, GPE |-> <<97>>, count |-> 1] }  \* ("b", "", "a")

\* What one lookup can do: coordinates, nothing found, or GeocoderTimedOut.
Lookups ==
    { [kind |-> "found", latitude |-> 27, longitude |-> -82],
      [kind |-> "found", latitude |-> 0, longitude |-> 0],
      [kind |-> "not_found"],
      [kind |-> "timeout"] }

InitGeocode ==
    /\ pc = "geocode_data"
    /\ IdleExtract
    /\ IdleEntities
    /\ data \in UNION {[1..n -> GroupRows] : n \in 1..MaxGroups}
    /\ IdleGeocode
    /\ IdleGeoDataFrame
    /\ IdlePolygons

\* geocode_address, lines 104-105: the apply of line 116 reaches the next row and
\* submits its address; the call blocks until the geolocator answers.
GeocodeCall ==
    /\ pc = "geocode_data"
    /\ inflight = <<>>
    /\ Len(latlon) < Len(data)
    /\ LET address == geocode_query(data[Len(latlon) + 1])
       IN  /\ requests' = Append(requests, address)
           /\ inflight' = Append(inflight, address)
    /\ UNCHANGED <<pc, data, replies, latlon, df>>
    /\ UNCHANGED <<extract_vars, entity_vars, target_states, polygon_vars>>

\* geocode_address, lines 105-111: the lookup returns a location, returns nothing
\* or raises GeocoderTimedOut, and the row's result is produced.
GeocodeReply ==
    /\ pc = "geocode_data"
    /\ inflight # <<>>
    /\ \E reply \in Lookups :
        /\ replies' = Append(replies, reply)
        /\ latlon' = Append(latlon, geocode_result(reply))
    /\ inflight' = Tail(inflight)
    /\ UNCHANGED <<pc, data, requests, df>>
    /\ UNCHANGED <<extract_vars, entity_vars, target_states, polygon_vars>>

\* geocode_data, lines 116-122, once every row has its result.
GeocodeDataReturn ==
    /\ pc = "geocode_data"
    /\ inflight = <<>>
    /\ Len(latlon) = Len(data)
    /\ data' = with_coordinates(data, latlon)
    /\ df' = dropna(with_coordinates(data, latlon))
    /\ pc' = "geocode_done"
    /\ UNCHANGED <<requests, inflight, replies, latlon>>
    /\ UNCHANGED <<extract_vars, entity_vars, target_states, polygon_vars>>

NextGeocode == GeocodeCall \/ GeocodeReply \/ GeocodeDataReturn

SpecGeocode == InitGeocode /\ [][NextGeocode]_vars

-----------------------------------------------------------------------------
(* contains_us_state_exact, add_state_polygons, clean_and_export_geojson   *)

\* Lines 24-32: self.us_states, in the order of the source ("Alabama" ... "Wyoming").
us_states == <<
    <<65,108,97,98,97,109,97>>,
    <<65,108,97,115,107,97>>,
    <<65,114,105,122,111,110,97>>,
    <<65,114,107,97,110,115,97,115>>,
    <<67,97,108,105,102,111,114,110,105,97>>,
    <<67,111,108,111,114,97,100,111>>,
    <<67,111,110,110,101,99,116,105,99,117,116>>,
    <<68,101,108,97,119,97,114,101>>,
    <<70,108,111,114,105,100,97>>,
    <<71,101,111,114,103,105,97>>,
    <<72,97,119,97,105,105>>,
    <<73,100,97,104,111>>,
    <<73,108,108,105,110,111,105,115>>,
    <<73,110,100,105,97,110,97>>,
    <<73,111,119,97>>,
    <<75,97,110,115,97,115>>,
    <<75,101,110,116,117,99,107,121>>,
    <<76,111,117,105,115,105,97,110,97>>,
    <<77,97,105,110,101>>,
    <<77,97,114,121,108,97,110,100>>,
    <<77,97,115,115,97,99,104,117,115,101,116,116,115>>,
    <<77,105,99,104,105,103,97,110>>,
    <<77,105,110,110,101,115,111,116,97>>,
    <<77,105,115,115,105,115,115,105,112,112,105>>,
    <<77,105,115,115,111,117,114,105>>,
    <<77,111,110,116,97,110,97>>,
    <<78,101,98,114,97,115,107,97>>,
    <<78,101,118,97,100,97>>,
    <<78,101,119,32,72,97,109,112,115,104,105,114,101>>,
    <<78,101,119,32,74,101,114,115,101,121>>,
    <<78,101,119,32,77,101,120,105,99,111>>,
    <<78,101,119,32,89,111,114,107>>,
    <<78,111,114,116,104,32,67,97,114,111,108,105,110,97>>,
    <<78,111,114,116,104,32,68,97,107,111,116,97>>,
    <<79,104,105,111>>,
    <<79,107,108,97,104,111,109,97>>,
    <<79,114,101,103,111,110>>,
    <<80,101,110,110,115,121,108,118,97,110,105,97>>,
    <<82,104,111,100,101,32,73,115,108,97,110,100>>,
    <<83,111,117,116,104,32,67,97,114,111,108,105,110,97>>,
    <<83,111,117,116,104,32,68,97,107,111,116,97>>,
    <<84,101,110,110,101,115,115,101,101>>,
    <<84,101,120,97,115>>,
    <<85,116,97,104>>,
    <<86,101,114,109,111,110,116>>,
    <<86,105,114,103,105,110,105,97>>,
    <<87,97,115,104,105,110,103,116,111,110>>,
    <<87,101,115,116,32,86,105,114,103,105,110,105,97>>,
    <<87,105,115,99,111,110,115,105,110>>,
    <<87,121,111,109,105,110,103>>
    >>

\* str.lower(), for the ASCII letters.
lower(s) == [k \in 1..Len(s) |-> IF s[k] \in 65..90 THEN s[k] + 32 ELSE s[k]]

\* The characters str.strip() removes: tab, line feed, vertical tab, form feed,
\* carriage return, space.
Whitespace == {9, 10, 11, 12, 13, 32}

\* Line 33: self.us_states_lower
us_states_lower == [k \in 1..Len(us_states) |-> lower(us_states[k])]

\* Lines 146-151: str(gpe_value).lower().strip() in self.us_states_lower
contains_us_state_exact(gpe_value) ==
    strip(lower(gpe_value), Whitespace) \in ToSet(us_states_lower)

\* A variant of make_polygon that does not look at FAC.
make_polygon_without_fac(row) ==
    IF row.LOC = <<>> /\ contains_us_state_exact(row.GPE) THEN 1 ELSE 0

\* Lines 157-160: the make_polygon flag of a row.
make_polygon(row) ==
    IF row.FAC = <<>> /\ row.LOC = <<>> /\ contains_us_state_exact(row.GPE) THEN 1 ELSE 0

\* Line 165: gdf['GPE'].str.lower().str.strip()
GPE_lower(row) == strip(lower(row.GPE), Whitespace)

\* Lines 157-165: the frame passed in, with its two new columns.
with_flags(frame) ==
    [i \in 1..Len(frame) |->
        [FAC |-> frame[i].FAC, LOC |-> frame[i].LOC, GPE |-> frame[i].GPE,
         count |-> frame[i].count,
         Latitude |-> frame[i].Latitude, Longitude |-> frame[i].Longitude,
         geometry |-> frame[i].geometry,
         make_polygon |-> make_polygon(frame[i]), GPE_lower |-> GPE_lower(frame[i])]]

\* Line 163: cultural_gdf['name'].str.lower()
lower_names(boundaries) ==
    [j \in 1..Len(boundaries) |->
        [name |-> lower(boundaries[j].name), geometry |-> boundaries[j].geometry]]

\* Lines 166-171 for one left row: one merged row per boundary entry whose name
\* equals GPE_lower, in the order of the entries, or one row without a match.
\* Both frames have a geometry column, so the merge names them geometry_x and
\* geometry_y and the merged frame has no column named geometry.
merge_row(row, boundaries) ==
    LET RECURSIVE matches(_)
        matches(j) ==
            IF j > Len(boundaries) THEN <<>>
            ELSE (IF boundaries[j].name = row.GPE_lower
                  THEN << [FAC |-> row.FAC, LOC |-> row.LOC, GPE |-> row.GPE,
                           count |-> row.count,
                           Latitude |-> row.Latitude, Longitude |-> row.Longitude,
                           geometry_x |-> row.geometry,
                           make_polygon |-> row.make_polygon,
                           geometry_y |-> boundaries[j].geometry] >>
                  ELSE <<>>) \o matches(j + 1)
    IN  IF matches(1) # <<>> THEN matches(1)
        ELSE << [FAC |-> row.FAC, LOC |-> row.LOC, GPE |-> row.GPE,
                 count |-> row.count,
                 Latitude |-> row.Latitude, Longitude |-> row.Longitude,
                 geometry_x |-> row.geometry,
                 make_polygon |-> row.make_polygon,
                 geometry_y |-> None] >>

\* Lines 166-171: the left merge, in the order of the left rows.
RECURSIVE merge_left(_, _)
merge_left(frame, boundaries) ==
    IF frame = <<>> THEN <<>>
    ELSE merge_row(Head(frame), boundaries) \o merge_left(Tail(frame), boundaries)

\* Lines 173-174: the new column geometry takes geometry_y on the flagged rows
\* and stays missing on the others; GPE_lower, name and geometry_y are dropped.
substitute(row) ==
    [FAC |-> row.FAC, LOC |-> row.LOC, GPE |-> row.GPE, count |-> row.count,
     Latitude |-> row.Latitude, Longitude |-> row.Longitude,
     geometry_x |-> row.geometry_x,
     make_polygon |-> row.make_polygon,
     geometry |-> IF row.make_polygon = 1 THEN row.geometry_y ELSE None]

\* Lines 185-190: set_geometry("geometry"), then the columns whose name starts
\* with geometry_ are dropped.
clean(row) ==
    [FAC |-> row.FAC, LOC |-> row.LOC, GPE |-> row.GPE, count |-> row.count,
     Latitude |-> row.Latitude, Longitude |-> row.Longitude,
     make_polygon |-> row.make_polygon,
     geometry |-> row.geometry]

\* Line 126: Point(xy) for xy in zip(df['Longitude'], df['Latitude'])
Point(x, y) == [type |-> "Point", x |-> x, y |-> y]

Polygon(id) == [type |-> "Polygon", id |-> id]

MaxGdfRows == 2

\* The values of the key columns of the frames given to add_state_polygons:
\* FAC and LOC both "", or one of them "x"; GPE one of "Florida", " florida",
\* "Florida Panhandle", "Florida, Georgia", "Ontario".
FacLocValues == { << <<>>, <<>> >>, << <<120>>, <<>> >>, << <<>>, <<120>> >> }

GpeValues ==
    { <<70,108,111,114,105,100,97>>,
      <<32,102,108,111,114,105,100,97>>,
      <<70,108,111,114,105,100,97,32,80,97,110,104,97,110,100,108,101>>,
      <<70,108,111,114,105,100,97,44,32,71,101,111,114,103,105,97>>,
      <<79,110,116,97,114,105,111>> }

\* The rows create_geodataframe produces (line 126): the point of a row is built
\* from its coordinates, here a latitude and a longitude fixed by the GPE value.
GdfRows ==
    { [FAC |-> fl[1], LOC |-> fl[2], GPE |-> g, count |-> 1,
       Latitude |-> Float(Len(g)), Longitude |-> Float(0 - Len(g)),
       geometry |-> Point(Float(0 - Len(g)), Float(Len(g)))] :
      fl \in FacLocValues, g \in GpeValues }

\* The entries the boundary datasets are drawn from: "Florida", "Ontario", and a
\* second entry named "Florida"; a dataset is any selection of them, in this order.
BoundaryEntries ==
    << [name |-> <<70,108,111,114,105,100,97>>, geometry |-> Polygon(1)],
       [name |-> <<79,110,116,97,114,105,111>>, geometry |-> Polygon(2)],
       [name |-> <<70,108,111,114,105,100,97>>, geometry |-> Polygon(3)] >>

RECURSIVE select_entries(_, _)
select_entries(picked, j) ==
    IF j > Len(BoundaryEntries) THEN <<>>
    ELSE (IF j \in picked THEN <<BoundaryEntries[j]>> ELSE <<>>)
         \o select_entries(picked, j + 1)

BoundaryDatasets ==
    {select_entries(picked, 1) : picked \in SUBSET (1..Len(BoundaryEntries))}

InitPolygons ==
    /\ pc = "add_state_polygons"
    /\ IdleExtract
    /\ IdleEntities
    /\ data = <<>>
    /\ IdleGeocode
    /\ IdleGeoDataFrame
    /\ gdf \in UNION {[1..n -> GdfRows] : n \in 1..MaxGdfRows}
    /\ cultural_gdf \in BoundaryDatasets
    /\ merged = <<>>
    /\ gdf1 = <<>>

\* add_state_polygons(gdf), lines 153-179.
AddStatePolygons ==
    /\ pc = "add_state_polygons"
    /\ LET flagged == with_flags(gdf)
           joined  == merge_left(flagged, lower_names(cultural_gdf))
       IN  /\ gdf' = flagged
           /\ merged' = [i \in 1..Len(joined) |-> substitute(joined[i])]
    /\ pc' = "polygons_done"
    /\ UNCHANGED <<cultural_gdf, gdf1, data>>
    /\ UNCHANGED <<extract_vars, entity_vars, geocode_vars, geodataframe_vars>>

\* clean_and_export_geojson(gdf), lines 181-196, on the frame add_state_polygons returned.
CleanAndExportGeojson ==
    /\ pc = "polygons_done"
    /\ gdf1' = [i \in 1..Len(merged) |-> clean(merged[i])]
    /\ pc' = "export_done"
    /\ UNCHANGED <<gdf, cultural_gdf, merged, data>>
    /\ UNCHANGED <<extract_vars, entity_vars, geocode_vars, geodataframe_vars>>

NextPolygons == AddStatePolygons \/ CleanAndExportGeojson

SpecPolygons == InitPolygons /\ [][NextPolygons]_vars

-----------------------------------------------------------------------------
(* create_geodataframe                                                     *)

\* A target_states argument that is a list of names (None when it is not given).
List(names) == [type |-> "list", value |-> names]

\* The shapes of the boundary polygons 1, 2 and 3: rectangles, in longitude (x)
\* and latitude (y).  Polygons 1 and 2 share the edge x = 3; polygon 3 overlaps both.
Extents ==
    << [xmin |-> 0, xmax |-> 3, ymin |-> 0, ymax |-> 2],
       [xmin |-> 3, xmax |-> 6, ymin |-> 0, ymax |-> 2],
       [xmin |-> 1, xmax |-> 5, ymin |-> 0, ymax |-> 2] >>

\* A variant of within that also accepts a point on the boundary of the polygon.
within_or_touching(point, polygon) ==
    LET e == Extents[polygon.id]
    IN  /\ e.xmin <= point.x.value /\ point.x.value <= e.xmax
        /\ e.ymin <= point.y.value /\ point.y.value <= e.ymax

\* Line 138, predicate='within': the point is in the interior of the polygon.
within(point, polygon) ==
    LET e == Extents[polygon.id]
    IN  /\ e.xmin < point.x.value /\ point.x.value < e.xmax
        /\ e.ymin < point.y.value /\ point.y.value < e.ymax

\* Lines 126-127: the frame with the geometry column of its points.
with_geometry(frame) ==
    [i \in 1..Len(frame) |->
        [FAC |-> frame[i].FAC, LOC |-> frame[i].LOC, GPE |-> frame[i].GPE,
         count |-> frame[i].count,
         Latitude |-> frame[i].Latitude, Longitude |-> frame[i].Longitude,
         geometry |-> Point(frame[i].Longitude, frame[i].Latitude)]]

\* Line 133: cultural_gdf[cultural_gdf['name'].isin(target_states)]
isin(name, names) == name \in ToSet(names)

selected_states(boundaries, names) ==
    SelectSeq(boundaries, LAMBDA entry : isin(entry.name, names))

\* Lines 138-140 for one row: one joined row per selected polygon the row's
\* point is within, with the columns of columns_to_keep.
sjoin_row(row, selected) ==
    LET RECURSIVE matches(_)
        matches(j) ==
            IF j > Len(selected) THEN <<>>
            ELSE (IF within(row.geometry, selected[j].geometry) THEN <<row>> ELSE <<>>)
                 \o matches(j + 1)
    IN  matches(1)

\* Line 138: gpd.sjoin(gdf, selected_states, how='inner', predicate='within'),
\* in the order of the left rows.
RECURSIVE sjoin(_, _)
sjoin(frame, selected) ==
    IF frame = <<>> THEN <<>>
    ELSE sjoin_row(Head(frame), selected) \o sjoin(Tail(frame), selected)

\* Lines 124-144: the returned frame.
create_geodataframe(frame, targets, boundaries) ==
    IF targets # None /\ targets.value # <<>>
    THEN sjoin(with_geometry(frame), selected_states(boundaries, targets.value))
    ELSE with_geometry(frame)

MaxDfRows == 2

\* The points of the geocoded rows, as (Longitude, Latitude): inside polygon 1
\* only, inside 1 and 3, on the shared edge of 1 and 2 (inside 3), inside 2
\* only, on the left edge of 1, on the lower edge of 1, outside every polygon.
Coordinates == { <<1, 1>>, <<2, 1>>, <<3, 1>>, <<5, 1>>, <<0, 1>>, <<1, 0>>, <<7, 1>> }

\* The rows of the frames given to create_geodataframe.
DfRows ==
    { [FAC |-> <<>>, LOC |-> <<>>, GPE |-> <<120>>, count |-> 1,
       Latitude |-> Float(c[2]), Longitude |-> Float(c[1])] : c \in Coordinates }

\* The target_states arguments: not given, the empty list, "Florida", "Ontario",
\* both, and "florida", which is the name of no entry.
TargetStates ==
    { None,
      List(<<>>),
      List(<< <<70,108,111,114,105,100,97>> >>),
      List(<< <<79,110,116,97,114,105,111>> >>),
      List(<< <<70,108,111,114,105,100,97>>, <<79,110,116,97,114,105,111>> >>),
      List(<< <<102,108,111,114,105,100,97>> >>) }

InitGeoDataFrame ==
    /\ pc = "create_geodataframe"
    /\ IdleExtract
    /\ IdleEntities
    /\ data = <<>>
    /\ IdleGeocode
    /\ df \in UNION {[1..n -> DfRows] : n \in 1..MaxDfRows}
    /\ target_states \in TargetStates
    /\ cultural_gdf \in BoundaryDatasets
    /\ gdf = <<>>
    /\ merged = <<>>
    /\ gdf1 = <<>>

\* create_geodataframe(df, target_states), lines 124-144.  Whether the frame
\* passed in shares its columns with the GeoDataFrame built from it at line 127,
\* and so receives the geometry column too, depends on the pandas version.
CreateGeodataframe ==
    /\ pc = "create_geodataframe"
    /\ gdf' = create_geodataframe(df, target_states, cultural_gdf)
    /\ \/ df' = df
       \/ df' = with_geometry(df)
    /\ pc' = "geodataframe_done"
    /\ UNCHANGED <<target_states, cultural_gdf, merged, gdf1, data>>
    /\ UNCHANGED <<extract_vars, entity_vars, geocode_vars>>

NextGeoDataFrame == CreateGeodataframe

SpecGeoDataFrame == InitGeoDataFrame /\ [][NextGeoDataFrame]_vars

\* Any one of the stages, on any of its inputs.
Init == InitExtract \/ InitEntities \/ InitGeocode \/ InitGeoDataFrame \/ InitPolygons

Next == NextExtract \/ NextEntities \/ NextGeocode \/ NextGeoDataFrame \/ NextPolygons

Spec == Init /\ [][Next]_vars

-----------------------------------------------------------------------------
(* Properties of process_entities                                          *)

EntitiesDone == pc = "entities_done"

EmptyKey(g) == g.FAC = <<>> /\ g.LOC = <<>> /\ g.GPE = <<>>

SameKey(g, h) == g.FAC = h.FAC /\ g.LOC = h.LOC /\ g.GPE = h.GPE

\* The groups that remain after the discard step (line 95).
Remaining == drop_first(df_cleaned)

RECURSIVE SumCount(_)
SumCount(frame) == IF frame = <<>> THEN 0 ELSE Head(frame).count + SumCount(Tail(frame))

\* The entries of a joined string: its pieces between the ", " separators.
RECURSIVE Split(_)
Split(s) ==
    LET cuts == {k \in 1..(Len(s) - 1) : s[k] = COMMA /\ s[k + 1] = SPACE}
    IN  IF cuts = {} THEN <<s>>
        ELSE LET k == CHOOSE c \in cuts : \A d \in cuts : c <= d
             IN  <<SubSeq(s, 1, k - 1)>> \o Split(SubSeq(s, k + 2, Len(s)))

Entries(s) == IF s = <<>> THEN <<>> ELSE Split(s)

\* The key of record i as it appears in the output: after hash removal and the trim.
CanonicalKey(i) == strip_group(result_df[i])

\* C1: the group discarded by the discard-first-group step is always the group
\* with the all-empty key: no record whose key has a non-empty FAC, LOC or GPE
\* string belongs to the discarded group, also when no record has the all-empty key.
C1_OnlyEmptyKeyDiscarded ==
    EntitiesDone =>
        \A i \in 1..Len(result_df) :
            ~EmptyKey(result_df[i]) =>
                ~SameKey(groupby_size(result_df)[1], result_df[i])

\* C2: when truncation removes nothing, the sum of count over the returned groups
\* plus the number of input records with the all-empty canonical key equals the
\* number of input records.
C2_GroupingConservation ==
    (EntitiesDone /\ Len(data) = Len(Remaining)) =>
        SumCount(data)
          + Cardinality({i \in 1..Len(result_df) : EmptyKey(CanonicalKey(i))})
          = Len(ner_entities)

\* C3: no two returned rows carry the same (FAC, LOC, GPE) triple of final strings.
C3_DistinctFinalKeys ==
    EntitiesDone =>
        \A i, j \in 1..Len(data) : i # j => ~SameKey(data[i], data[j])

\* C4: for every record, no entry of the canonical FAC string is present in the
\* record's LOC set, and the LOC and GPE strings are those obtained without the
\* exclusion step.
C4_CrossTypeExclusion ==
    EntitiesDone =>
        \A i \in 1..Len(result_df) :
            /\ ToSet(Entries(CanonicalKey(i).FAC)) \cap ner_entities[i].LOC = {}
            /\ result_df[i].LOC = clean_hash(join_sorted(dedup(ner_entities[i].extracted_entities))).LOC
            /\ result_df[i].GPE = clean_hash(join_sorted(dedup(ner_entities[i].extracted_entities))).GPE

\* The canonical form the claim describes: strip '#' from every element, sort the
\* stripped elements, join with ", ", trim spaces and commas.
StripSortJoin(S) == strip(join(sorted({remove_hash(e) : e \in S})), {SPACE, COMMA})

StrictlyAscending(seq) == \A k \in 1..(Len(seq) - 1) : StrLess(seq[k], seq[k + 1])

\* C5: every key field equals strip-hash, then sort, then join, then trim of the
\* record's entity-text set (FAC after the exclusion); so its entries are in
\* ascending order, without '#' and without a duplicate entry.
C5_CanonicalForm ==
    EntitiesDone =>
        \A i \in 1..Len(result_df) :
            LET sets == remove_fac_loc_duplicates(dedup(ner_entities[i].extracted_entities))
                key  == CanonicalKey(i)
            IN  /\ key.FAC = StripSortJoin(sets.FAC)
                /\ key.LOC = StripSortJoin(sets.LOC)
                /\ key.GPE = StripSortJoin(sets.GPE)
                /\ \A f \in {key.FAC, key.LOC, key.GPE} :
                       /\ StrictlyAscending(Entries(f))
                       /\ HASH \notin ToSet(f)

\* C6 as stated: for every max_rows >= 0, 0 included, the returned frame has at
\* most max_rows groups and is the first min(max_rows, n) of the n remaining groups.
C6_TruncatesForEveryMaxRows ==
    EntitiesDone =>
        /\ Len(data) <= max_rows
        /\ Len(data) = Min(max_rows, Len(Remaining))
        /\ \A k \in 1..Len(data) : data[k] = df_cleaned[k + 1]

\* C6 amended: for max_rows >= 1 the returned frame is the first
\* min(max_rows, n) of the n remaining groups, in order; for max_rows = 0 nothing
\* is truncated and all n remaining groups are returned, in order.
C6_TruncationUnlessZero ==
    EntitiesDone =>
        /\ Len(data) = (IF max_rows >= 1 THEN Min(max_rows, Len(Remaining))
                        ELSE Len(Remaining))
        /\ \A k \in 1..Len(data) : data[k] = df_cleaned[k + 1]

\* Truncation happened: more groups remained than max_rows allows.
C6_Witness ==
    /\ EntitiesDone
    /\ max_rows >= 1
    /\ Len(Remaining) > max_rows
    /\ Len(data) = max_rows

\* C17: no group process_entities returns has the all-empty final key: every
\* returned group has a non-empty FAC, LOC or GPE, also for records whose only
\* entity texts are spaces, commas or '#'; and a batch in which every record has
\* no extracted entity yields no returned group.
C17_NoEmptyKeyReturned ==
    EntitiesDone =>
        /\ \A k \in 1..Len(data) : ~EmptyKey(data[k])
        /\ (\A i \in 1..Len(ner_entities) :
                ner_entities[i].extracted_entities = [FAC |-> <<>>, LOC |-> <<>>, GPE |-> <<>>])
              => data = <<>>

-----------------------------------------------------------------------------
(* Properties of geocode_data                                              *)

\* The rows whose lookup returned coordinates.
FoundRows == {i \in 1..Len(replies) : replies[i].kind = "found"}

\* C7: the frame geocode_data returns holds exactly the groups whose lookup
\* returned coordinates, each once, in input order, with key and count as in the
\* input and the coordinates the lookup gave; a group whose lookup timed out or
\* found nothing is not in it.
C7_GeocodeFailureExclusion ==
    [][(pc = "geocode_data" /\ pc' = "geocode_done") =>
          /\ Len(df') = Cardinality(FoundRows)
          /\ \A i \in FoundRows :
                LET row == df'[Cardinality({j \in FoundRows : j <= i})]
                IN  /\ row.FAC = data[i].FAC
                    /\ row.LOC = data[i].LOC
                    /\ row.GPE = data[i].GPE
                    /\ row.count = data[i].count
                    /\ row.Latitude = Float(replies[i].latitude)
                    /\ row.Longitude = Float(replies[i].longitude)]_vars

\* geocode_data returned after a found, a not-found and a timed-out lookup.
C7_Witness ==
    /\ pc = "geocode_done"
    /\ {replies[i].kind : i \in 1..Len(replies)} = {"found", "not_found", "timeout"}
    /\ Len(df) = 1

\* C8: the lookups are submitted one at a time, the k-th for the k-th group with
\* the address "{FAC}, {LOC}, {GPE}", each group exactly once: no lookup starts
\* while another is pending and none is repeated after a timeout or not-found.
C8_OneLookupPerGroup ==
    /\ Len(inflight) <= 1
    /\ Len(requests) = Len(replies) + Len(inflight)
    /\ Len(requests) <= Len(data)
    /\ \A k \in 1..Len(requests) :
           requests[k] = join(<<data[k].FAC, data[k].LOC, data[k].GPE>>)
    /\ pc = "geocode_done" => Len(requests) = Len(data)

\* geocode_data returned although the first lookup timed out and a later one
\* found nothing, with one request per group.
C8_Witness ==
    /\ pc = "geocode_done"
    /\ Len(data) = 3
    /\ replies[1].kind = "timeout"
    /\ replies[2].kind = "not_found"
    /\ Len(requests) = 3

-----------------------------------------------------------------------------
(* Properties of add_state_polygons and clean_and_export_geojson           *)

\* Two characters that are equal up to the case of an ASCII letter.
SameLetter(c, d) ==
    \/ c = d
    \/ c \in 65..90 /\ d = c + 32
    \/ d \in 65..90 /\ c = d + 32

SameName(s, t) == Len(s) = Len(t) /\ \A k \in 1..Len(s) : SameLetter(s[k], t[k])

\* gpe is the region name, up to case, between leading and trailing whitespace.
IsExactly(gpe, name) ==
    \E a \in 0..(Len(gpe) - Len(name)) :
        /\ \A k \in 1..a : gpe[k] \in Whitespace
        /\ SameName(SubSeq(gpe, a + 1, a + Len(name)), name)
        /\ \A k \in (a + Len(name) + 1)..Len(gpe) : gpe[k] \in Whitespace

\* The recognized region names that GPE exactly is.
RegionNames(gpe) == {n \in 1..Len(us_states) : IsExactly(gpe, us_states[n])}

\* The boundary entries whose polygon the record may receive: FAC and LOC are
\* empty, GPE is exactly a recognized region name, and the entry has that name.
PolygonEntries(row) ==
    IF row.FAC # <<>> \/ row.LOC # <<>> THEN {}
    ELSE LET names == RegionNames(row.GPE)
         IN  {j \in 1..Len(cultural_gdf) :
                 \E n \in names : SameName(cultural_gdf[j].name, us_states[n])}

\* C9: in the frame add_state_polygons returns, and in the exported frame, a
\* record's geometry is a boundary polygon iff FAC and LOC are empty, GPE is
\* exactly a recognized region name and the boundary dataset has an entry of that
\* name; the geometry is then the polygon of such an entry.
C9_ExactMatchPolygonSubstitution ==
    \A frame \in {merged, gdf1} :
        \A i \in 1..Len(frame) :
            LET entries == PolygonEntries(frame[i])
            IN  /\ frame[i].geometry.type = "Polygon" <=> entries # {}
                /\ frame[i].geometry.type = "Polygon" =>
                       \E j \in entries : frame[i].geometry = cultural_gdf[j].geometry

\* "Florida" received the polygon of the dataset's entry while "Florida Panhandle",
\* with FAC and LOC empty too, received none.
C9_Witness ==
    /\ pc = "export_done"
    /\ \E i \in 1..Len(gdf1) :
          /\ gdf1[i].GPE = <<70,108,111,114,105,100,97>>
          /\ gdf1[i].geometry.type = "Polygon"
    /\ \E i \in 1..Len(gdf1) :
          /\ gdf1[i].FAC = <<>> /\ gdf1[i].LOC = <<>>
          /\ gdf1[i].GPE = <<70,108,111,114,105,100,97,32,80,97,110,104,97,110,100,108,101>>
          /\ gdf1[i].geometry.type # "Polygon"

\* The record of frame that carries the key, count and coordinates of row.
SameRecord(r, row) ==
    /\ r.FAC = row.FAC /\ r.LOC = row.LOC /\ r.GPE = row.GPE
    /\ r.count = row.count
    /\ r.Latitude = row.Latitude /\ r.Longitude = row.Longitude

\* C10: every record passed to add_state_polygons with make_polygon = 0 has,
\* after add_state_polygons and after clean_and_export_geojson, the same
\* Point(Longitude, Latitude) as its geometry and the same FAC, LOC, GPE, count,
\* Latitude and Longitude.
C10_UnflaggedKeepPoint ==
    \A i \in 1..Len(gdf) :
        (pc \in {"polygons_done", "export_done"} /\ gdf[i].make_polygon = 0) =>
            /\ \E k \in 1..Len(merged) :
                  /\ SameRecord(merged[k], gdf[i])
                  /\ merged[k].geometry = Point(gdf[i].Longitude, gdf[i].Latitude)
            /\ pc = "export_done" =>
                  \E k \in 1..Len(gdf1) :
                      /\ SameRecord(gdf1[k], gdf[i])
                      /\ gdf1[k].geometry = Point(gdf[i].Longitude, gdf[i].Latitude)

\* C11: a record flagged make_polygon = 1 (FAC and LOC empty, GPE exactly a
\* recognized region name) for which the boundary dataset has no entry of that
\* name keeps its original point as its geometry after add_state_polygons.
C11_FlaggedWithoutEntryKeepsPoint ==
    \A i \in 1..Len(gdf) :
        (/\ pc \in {"polygons_done", "export_done"}
         /\ gdf[i].make_polygon = 1
         /\ PolygonEntries(gdf[i]) = {}) =>
            \E k \in 1..Len(merged) :
                /\ SameRecord(merged[k], gdf[i])
                /\ merged[k].geometry = Point(gdf[i].Longitude, gdf[i].Latitude)

\* C16: the frame add_state_polygons returns has exactly one record per input
\* record, in the same order, with the same FAC, LOC, GPE, count, Latitude and
\* Longitude, for every boundary dataset, also one where entries share a name.
C16_OneRecordPerInputRecord ==
    pc \in {"polygons_done", "export_done"} =>
        /\ Len(merged) = Len(gdf)
        /\ \A i \in 1..Min(Len(merged), Len(gdf)) : SameRecord(merged[i], gdf[i])

-----------------------------------------------------------------------------
(* Properties of create_geodataframe                                       *)

\* The point of input row i lies strictly inside the rectangle of boundary entry j.
StrictlyInside(i, j) ==
    LET e == Extents[cultural_gdf[j].geometry.id]
        x == df[i].Longitude.value
        y == df[i].Latitude.value
    IN  x > e.xmin /\ x < e.xmax /\ y > e.ymin /\ y < e.ymax

\* Input row i is strictly within a boundary polygon whose name is a target name.
InTarget(i) ==
    \E j \in 1..Len(cultural_gdf) :
        /\ \E t \in 1..Len(target_states.value) : target_states.value[t] = cultural_gdf[j].name
        /\ StrictlyInside(i, j)

\* Output row r is input row i with its point.
IsInputRow(r, i) ==
    /\ SameRecord(r, df[i])
    /\ r.geometry = Point(df[i].Longitude, df[i].Latitude)

TargetsGiven == target_states # None /\ target_states.value # <<>>

\* C12: with a non-empty set of target names, the frame create_geodataframe
\* returns holds exactly the input points that lie strictly within (not on the
\* boundary of) a boundary polygon whose name is a target name, every other
\* point being dropped; with no target set it holds every input record with
\* its point, in input order.
C12_ContainmentFilter ==
    pc = "geodataframe_done" =>
        IF TargetsGiven
        THEN /\ \A k \in 1..Len(gdf) :
                    \E i \in 1..Len(df) : InTarget(i) /\ IsInputRow(gdf[k], i)
             /\ \A i \in 1..Len(df) :
                    InTarget(i) => \E k \in 1..Len(gdf) : IsInputRow(gdf[k], i)
        ELSE /\ Len(gdf) = Len(df)
             /\ \A i \in 1..Len(df) : IsInputRow(gdf[i], i)

\* With polygon 1 named "Florida" and polygon 2 named "Ontario", the point (1, 1)
\* inside polygon 1 and the point (3, 1) on the edge the two polygons share were
\* filtered against the target "Florida": only the first is returned.
C12_Witness ==
    /\ pc = "geodataframe_done"
    /\ target_states = List(<< <<70,108,111,114,105,100,97>> >>)
    /\ Len(cultural_gdf) = 2
    /\ cultural_gdf[1].geometry = Polygon(1)
    /\ cultural_gdf[2].geometry = Polygon(2)
    /\ Len(df) = 2
    /\ df[1].Longitude = Float(1) /\ df[1].Latitude = Float(1)
    /\ df[2].Longitude = Float(3) /\ df[2].Latitude = Float(1)
    /\ Len(gdf) = 1
    /\ IsInputRow(gdf[1], 1)

-----------------------------------------------------------------------------
(* Properties of extract_entities_by_type                                  *)

ExtractDone == pc = "extract_done"

\* The positions in the label of the spans of type T.
SpansOfType(T) == {k \in 1..Len(tweet.label) : tweet.label[k][3] = T}

\* The number of the elements of S up to k: the place of k among them.
Rank(S, k) == Cardinality({j \in S : j <= k})

\* The substring of the text between the clamped bounds of span k:
\* max(0, start) and min(len(text), end).
Clamped(k) ==
    SubSeq(tweet.text, Max(0, tweet.label[k][1]) + 1, Min(Len(tweet.text), tweet.label[k][2]))

\* C14: extract_entities_by_type returns for every text and every span with
\* integer start and end (negative, beyond the end of the text, or start >= end),
\* and each span contributes nothing or exactly the substring of the text
\* between the clamped bounds max(0, start) and min(len(text), end).
C14_ClampedOrNothing ==
    ExtractDone =>
        \A T \in {"FAC", "LOC", "GPE"} :
            \E kept \in SUBSET SpansOfType(T) :
                /\ Len(extracted[T]) = Cardinality(kept)
                /\ \A k \in kept : extracted[T][Rank(kept, k)] = Clamped(k)

\* C15: the FAC, LOC and GPE lists are the sequences of text[start:end] over the
\* spans of that type, in span order, duplicates kept; a span of another type
\* adds to no list.
C15_SpanRouting ==
    ExtractDone =>
        \A T \in {"FAC", "LOC", "GPE"} :
            /\ Len(extracted[T]) = Cardinality(SpansOfType(T))
            /\ \A k \in SpansOfType(T) :
                   extracted[T][Rank(SpansOfType(T), k)]
                     = slice(tweet.text, tweet.label[k][1], tweet.label[k][2])

\* The span [1:2] of type GPE twice with an ORG span between them: "b" is twice
\* in the GPE list and the other lists are empty.
C15_Witness ==
    /\ ExtractDone
    /\ tweet.label = << <<1, 2, "GPE">>, <<0, 2, "ORG">>, <<1, 2, "GPE">> >>
    /\ extracted = [FAC |-> <<>>, LOC |-> <<>>, GPE |-> << <<98>>, <<98>> >>]

-----------------------------------------------------------------------------
(* Properties of the stages together                                       *)

\* C13: no stage changes the collection passed to it: process_entities leaves
\* ner_entities, geocode_data leaves data, create_geodataframe leaves df and
\* add_state_polygons leaves gdf with the same rows, columns and values.
C13_StagesLeaveInputUnchanged ==
    [][/\ (pc = "process_entities" /\ pc' = "entities_done") => ner_entities' = ner_entities
       /\ (pc = "geocode_data" /\ pc' = "geocode_done") => data' = data
       /\ (pc = "create_geodataframe" /\ pc' = "geodataframe_done") => df' = df
       /\ (pc = "add_state_polygons" /\ pc' = "polygons_done") => gdf' = gdf]_vars

=============================================================================
